---- MODULE Spec2Model ----
(***************************************************************************)
(* Travel Itinerary API (FastAPI + SQLAlchemy on SQLite).                  *)
(*                                                                         *)
(* The model has the committed tables (Store: the rows of the start-up     *)
(* file plus db, the rows committed since), the write set of the creation  *)
(* request in flight (txn, pending), the position of that request in       *)
(* create_itinerary (pc) and the response of each handler.  No handler     *)
(* updates or deletes a row, so the rows of the start-up file stay.        *)
(*                                                                         *)
(* Storage engine facts the model relies on (models.py:146, SQLite):       *)
(*  - a SELECT without ORDER BY on a table scans it in rowid order, and an *)
(*    INTEGER PRIMARY KEY is the rowid, so rows come out by ascending id;  *)
(*  - rows with equal ORDER BY keys come out in the order the query plan   *)
(*    scans them: for a link table by its primary key index (day_id,       *)
(*    <entity>_id) or by rowid; the plan follows from the schema and the   *)
(*    statistics of the file, which no request changes (plan);             *)
(*  - a new INTEGER PRIMARY KEY is the largest one in the table plus one;  *)
(*  - foreign keys are not enforced (no PRAGMA foreign_keys), primary keys *)
(*    and UNIQUE columns are;                                              *)
(*  - uncommitted rows are invisible to other sessions.                    *)
(***************************************************************************)
EXTENDS Integers, Sequences, FiniteSets

\* ---------------------------------------------------------------- bounds
\* What the clients ask the API to write in one run: every creation request
\* counts for its itinerary, its day specifications and the catalog ids they
\* reference (accommodation_id given, each activity_ids / transfer_ids
\* entry), and the rows already committed count against the next request.
MaxRows == 4

\* The rows of a request body of the runs that are checked for what they
\* lead to.
SessionRows == 3

\* ------------------------------------------------------------ seed.py
\* <<id, duration_nights>>, all with is_recommended = True
SeedItineraries ==
  {
    <<1, 3>>, <<2, 5>>, <<3, 2>>, <<4, 4>>, <<5, 6>>, <<6, 7>>,
    <<7, 8>>
  }

\* <<id, itinerary_id, day_number>>
SeedDays ==
  {
    <<1, 1, 1>>, <<2, 1, 2>>, <<3, 1, 3>>, <<4, 1, 4>>, <<5, 2, 1>>, <<6, 2, 2>>,
    <<7, 2, 3>>, <<8, 2, 4>>, <<9, 2, 5>>, <<10, 2, 6>>, <<11, 3, 1>>, <<12, 3, 2>>,
    <<13, 3, 3>>, <<14, 4, 1>>, <<15, 4, 2>>, <<16, 4, 3>>, <<17, 4, 4>>, <<18, 4, 5>>,
    <<19, 5, 1>>, <<20, 5, 2>>, <<21, 5, 3>>, <<22, 5, 4>>, <<23, 5, 5>>, <<24, 5, 6>>,
    <<25, 5, 7>>, <<26, 6, 1>>, <<27, 6, 2>>, <<28, 6, 3>>, <<29, 6, 4>>, <<30, 6, 5>>,
    <<31, 6, 6>>, <<32, 6, 7>>, <<33, 6, 8>>, <<34, 7, 1>>, <<35, 7, 2>>, <<36, 7, 3>>,
    <<37, 7, 4>>, <<38, 7, 5>>, <<39, 7, 6>>, <<40, 7, 7>>, <<41, 7, 8>>, <<42, 7, 9>>
  }

\* <<id, day_id, accommodation_id>>
SeedDayAccommodations ==
  {
    <<1, 1, 1>>, <<2, 2, 1>>, <<3, 3, 1>>, <<4, 5, 5>>, <<5, 6, 5>>, <<6, 7, 3>>,
    <<7, 8, 3>>, <<8, 9, 3>>, <<9, 11, 2>>, <<10, 12, 2>>, <<11, 14, 3>>, <<12, 15, 3>>,
    <<13, 16, 3>>, <<14, 17, 3>>, <<15, 19, 5>>, <<16, 20, 5>>, <<17, 21, 5>>, <<18, 22, 4>>,
    <<19, 23, 4>>, <<20, 24, 4>>, <<21, 26, 1>>, <<22, 27, 1>>, <<23, 28, 1>>, <<24, 29, 3>>,
    <<25, 30, 3>>, <<26, 31, 3>>, <<27, 32, 3>>, <<28, 34, 5>>, <<29, 35, 5>>, <<30, 36, 5>>,
    <<31, 37, 5>>, <<32, 38, 6>>, <<33, 39, 6>>, <<34, 40, 6>>, <<35, 41, 6>>
  }

\* <<day_id, activity_id>>, every row with the column default "order" = 0
SeedDayActivities ==
  {
    <<2, 1>>, <<3, 2>>, <<3, 3>>, <<6, 4>>, <<8, 6>>, <<9, 5>>,
    <<11, 2>>, <<12, 1>>, <<15, 6>>, <<16, 5>>, <<17, 7>>, <<21, 1>>,
    <<23, 5>>, <<24, 6>>, <<27, 4>>, <<28, 2>>, <<28, 3>>, <<30, 6>>,
    <<31, 5>>, <<35, 1>>, <<36, 4>>, <<37, 2>>, <<37, 10>>, <<39, 6>>,
    <<40, 7>>, <<41, 5>>
  }

\* <<day_id, transfer_id>>, every row with the column default "order" = 0
SeedDayTransfers ==
  {
    <<1, 1>>, <<4, 9>>, <<5, 1>>, <<7, 3>>, <<7, 5>>, <<7, 7>>,
    <<10, 10>>, <<11, 1>>, <<13, 9>>, <<14, 2>>, <<18, 10>>, <<19, 1>>,
    <<22, 3>>, <<22, 5>>, <<22, 7>>, <<25, 10>>, <<26, 1>>, <<29, 3>>,
    <<29, 5>>, <<29, 7>>, <<33, 10>>, <<34, 1>>, <<38, 3>>, <<38, 5>>,
    <<38, 7>>, <<42, 10>>
  }

\* ------------------------------------------------------------ models.py
\* Column('order', Integer, default=0): the value an INSERT that does not
\* name the column stores.
order_default == 0

\* A link row of day_activity_association / day_transfer_association; ref
\* is the activity_id or transfer_id column, rowid the engine's row number
\* (the tables have a composite primary key, so it is no column of theirs).
LinkRow(day_id, ref, ord, rowid) ==
  [day_id |-> day_id, ref |-> ref, order |-> ord, rowid |-> rowid]

\* The row number of a seed link row: seed.py appends the links day by day,
\* each day's in ascending id.
SeedRowid(links, t) ==
  Cardinality({u \in links : u[1] < t[1] \/ (u[1] = t[1] /\ u[2] <= t[2])})

\* The tables right after Base.metadata.create_all on a fresh file.
EmptyStore ==
  [ itineraries        |-> {},
    days               |-> {},
    day_accommodations |-> {},
    day_activities     |-> {},
    day_transfers      |-> {},
    accommodations     |-> {},
    activities         |-> {},
    transfers          |-> {} ]

\* The tables after seed_database() has committed.
SeededStore ==
  [ itineraries        |-> { [id |-> t[1], duration_nights |-> t[2], is_recommended |-> TRUE]
                             : t \in SeedItineraries },
    days               |-> { [id |-> t[1], itinerary_id |-> t[2], day_number |-> t[3]]
                             : t \in SeedDays },
    day_accommodations |-> { [id |-> t[1], day_id |-> t[2], accommodation_id |-> t[3]]
                             : t \in SeedDayAccommodations },
    day_activities     |-> { LinkRow(t[1], t[2], order_default, SeedRowid(SeedDayActivities, t))
                             : t \in SeedDayActivities },
    day_transfers      |-> { LinkRow(t[1], t[2], order_default, SeedRowid(SeedDayTransfers, t))
                             : t \in SeedDayTransfers },
    accommodations     |-> 1..6,
    activities         |-> 1..10,
    transfers          |-> 1..10 ]

\* Table by table union: what a session sees of its own uncommitted rows,
\* and what COMMIT makes of the store.
Merge(s, t) ==
  [ itineraries        |-> s.itineraries \cup t.itineraries,
    days               |-> s.days \cup t.days,
    day_accommodations |-> s.day_accommodations \cup t.day_accommodations,
    day_activities     |-> s.day_activities \cup t.day_activities,
    day_transfers      |-> s.day_transfers \cup t.day_transfers,
    accommodations     |-> s.accommodations \cup t.accommodations,
    activities         |-> s.activities \cup t.activities,
    transfers          |-> s.transfers \cup t.transfers ]

\* ------------------------------------------------- storage engine reads
Max(S) == CHOOSE x \in S : \A y \in S : y <= x

\* INTEGER PRIMARY KEY of the next inserted row.
NextId(rows) == IF rows = {} THEN 1 ELSE Max({r.id : r \in rows}) + 1

\* Rows of a table with an integer primary key, in rowid order.
RECURSIVE ById(_)
ById(rows) ==
  IF rows = {} THEN <<>>
  ELSE LET m == CHOOSE r \in rows : \A q \in rows : r.id <= q.id
       IN  <<m>> \o ById(rows \ {m})

\* SQL leaves the order of rows with equal ORDER BY keys to the engine: they
\* come out as the query plan scans them, by the primary key index or by
\* rowid (insertion).
ScanOrders == {"primary_key", "rowid"}

\* Row number of the next row inserted in a link table.
NextRowid(links) == IF links = {} THEN 1 ELSE Max({l.rowid : l \in links}) + 1

\* Link rows under ORDER BY "order", equal keys in scan order.
RECURSIVE ByOrder(_, _)
ByOrder(links, scan) ==
  IF links = {} THEN <<>>
  ELSE LET m == CHOOSE r \in links : \A q \in links :
                  \/ r.order < q.order
                  \/ /\ r.order = q.order
                     /\ IF scan = "rowid" THEN r.rowid <= q.rowid
                        ELSE r.day_id < q.day_id \/ (r.day_id = q.day_id /\ r.ref <= q.ref)
       IN  <<m>> \o ByOrder(links \ {m}, scan)

\* ------------------------------------------------------------ schemas.py
\* Optional[int] is a set with at most one element: {} is None.
None == {}

\* The test `is not None`: 0 passes it.
IsNotNone(opt) == opt # {}

\* Python truthiness of an Optional[int]: None and 0 are falsy.
Truthy(opt) == \E x \in opt : x # 0

\* ------------------------------------------------------- client inputs
DayNumberInputs == {1, 2, 3}
\* 1 and 2 are catalog ids of the seed, 99 is in no catalog.
IdInputs == {1, 2, 99}
AccommodationInputs == {None, {0}, {1}, {99}}
DurationInputs == {2}

RECURSIVE SeqsOfLen(_, _)
SeqsOfLen(S, n) ==
  IF n = 0 THEN {<<>>}
  ELSE {Append(s, x) : s \in SeqsOfLen(S, n - 1), x \in S}

\* DayCreateDetail values that reference exactly k catalog ids.
DaySpecs(k) ==
  UNION { { [day_number |-> n, accommodation_id |-> p[1], activity_ids |-> x, transfer_ids |-> y] :
              n \in DayNumberInputs,
              x \in SeqsOfLen(IdInputs, p[2]),
              y \in SeqsOfLen(IdInputs, k - Cardinality(p[1]) - p[2]) } :
          p \in { q \in AccommodationInputs \X (0..k) : Cardinality(q[1]) + q[2] <= k } }

\* Lists of n day specifications that reference exactly k catalog ids.
RECURSIVE DayLists(_, _)
DayLists(n, k) ==
  IF n = 0 THEN (IF k = 0 THEN {<<>>} ELSE {})
  ELSE UNION { {Append(s, d) : s \in DayLists(n - 1, k - j), d \in DaySpecs(j)} : j \in 0..k }

\* ItineraryCreate bodies of at most `size` a client sends (name, region and
\* day_summary are copied through and left out).
Requests(size) ==
  { [duration_nights |-> dn, days |-> ds] :
      dn \in DurationInputs,
      ds \in UNION { DayLists(sz[1], sz[2]) :
                       sz \in { z \in (0..size) \X (0..size) : 1 + z[1] + z[2] <= size } } }

\* ------------------------------------------------- responses (main.py)
DuplicateDayNumber == "Duplicate day numbers found in the itinerary request."
MissingReference == "<kind> not found with IDs: <ids>"
ValidationInfrastructureFailure == "Failed to validate related itinerary items."
ConstraintViolation == "Database constraint violation. Check input data."
PersistenceFailure == "An unexpected error occurred while saving the itinerary."
PostCommitReadFailure == "Itinerary created, but failed to retrieve full details for response."
NotFound == "Itinerary not found"
InvalidInput == "duration: ensure this value is in [2, 8]"

\* The ids a MissingReference detail enumerates, by entity kind.
NoIds == [accommodations |-> {}, activities |-> {}, transfers |-> {}]

\* What the client gets: status code, detail text, the ids the detail
\* lists, and the response body (a sequence: empty for an error).
Response(status_code, detail, ids, body) ==
  [status_code |-> status_code, detail |-> detail, ids |-> ids, body |-> body]

HTTPException(status_code, detail, ids) == Response(status_code, detail, ids, <<>>)

NoResponse == Response(0, "", NoIds, <<>>)

\* A storage error that is not an IntegrityError, as an exception value.
SQLAlchemyError == Response(0, "SQLAlchemyError", NoIds, <<>>)

\* ------------------------------------------------ hydrated read models
Range(s) == {s[i] : i \in 1..Len(s)}

\* Day.activities / Day.transfers: the catalog rows joined to the day's link
\* rows, ORDER BY the link table's "order" column.
Linked(links, catalog, day_id, scan) ==
  LET rows == ByOrder({l \in links : l.day_id = day_id /\ l.ref \in catalog}, scan)
  IN  [i \in 1..Len(rows) |-> rows[i].ref]

\* schemas.DayDetail of one row of days.
DayDetail(store, d, scan) ==
  [ id                 |-> d.id,
    day_number         |-> d.day_number,
    accommodation_link |-> {l.accommodation_id : l \in {k \in store.day_accommodations : k.day_id = d.id}},
    activities         |-> Linked(store.day_activities, store.activities, d.id, scan),
    transfers          |-> Linked(store.day_transfers, store.transfers, d.id, scan) ]

\* Itinerary.days: the rows of days of one itinerary; the relationship has
\* no order_by.
ItineraryDays(store, itinerary_id) == ById({d \in store.days : d.itinerary_id = itinerary_id})

\* schemas.ItineraryDetail of one row of itineraries.
ItineraryDetail(store, it, scan) ==
  LET ds == ItineraryDays(store, it.id)
  IN  [ id              |-> it.id,
        duration_nights |-> it.duration_nights,
        is_recommended  |-> it.is_recommended,
        days            |-> [i \in 1..Len(ds) |-> DayDetail(store, ds[i], scan)] ]

\* schemas.ItineraryList of one row of itineraries.
ItineraryList(it) ==
  [id |-> it.id, duration_nights |-> it.duration_nights, is_recommended |-> it.is_recommended]

\* ------------------------------------- create_itinerary: pure functions
\* A duplicate check that compares neighbours only.
HasAdjacentDuplicates(days) ==
  \E i \in 1..(Len(days) - 1) : days[i].day_number = days[i + 1].day_number

\* len(day_numbers) != len(set(day_numbers))
HasDuplicateDayNumbers(days) ==
  Len(days) # Cardinality({days[i].day_number : i \in 1..Len(days)})

required_acc_ids(days) ==
  UNION {days[i].accommodation_id : i \in {j \in 1..Len(days) : Truthy(days[j].accommodation_id)}}

required_act_ids(days) == UNION {Range(days[i].activity_ids) : i \in 1..Len(days)}

required_trans_ids(days) == UNION {Range(days[i].transfer_ids) : i \in 1..Len(days)}

\* missing_acc, missing_act, missing_trans: required minus existing ids.
MissingIds(store, days) ==
  [ accommodations |-> required_acc_ids(days) \ (required_acc_ids(days) \cap store.accommodations),
    activities     |-> required_act_ids(days) \ (required_act_ids(days) \cap store.activities),
    transfers      |-> required_trans_ids(days) \ (required_trans_ids(days) \cap store.transfers) ]

\* The body of the validation try block: the exception it raises, if any.
\* failed: one of its queries raised.
ValidationRaises(store, days, failed) ==
  IF failed THEN <<SQLAlchemyError>>
  ELSE IF MissingIds(store, days) # NoIds
       THEN <<HTTPException(400, MissingReference, MissingIds(store, days))>>
       ELSE <<>>

\* The except clause of the validation block: `except Exception` names
\* every exception raised in the try body, its own HTTPException included.
ValidationExcept(raised) == HTTPException(500, ValidationInfrastructureFailure, NoIds)

\* sorted(itinerary.days, key=lambda d: d.day_number): stable.
RECURSIVE sorted_days(_)
sorted_days(days) ==
  IF days = <<>> THEN <<>>
  ELSE LET i == CHOOSE k \in 1..Len(days) :
                  /\ \A j \in 1..Len(days) : days[k].day_number <= days[j].day_number
                  /\ \A j \in 1..(k - 1) : days[j].day_number # days[k].day_number
       IN  <<days[i]>> \o sorted_days(SubSeq(days, 1, i - 1) \o SubSeq(days, i + 1, Len(days)))

\* The write loop without sorted(): request order.
RequestOrder(days) == days

\* The day specifications in the order the write loop takes them.
ProcessingOrder(days) == sorted_days(days)

\* ------------------------------------------------- session unit of work
\* Objects added to the session and not flushed yet: DayAccommodation
\* objects and the appends to Day.activities / Day.transfers, as <<day_id,
\* id>> in append order.
NoPending == [accommodations |-> {}, activities |-> <<>>, transfers |-> <<>>]

\* The loop body with `if day_data.accommodation_id is not None`.
PendingOfEveryReference(day_id, day_data) ==
  [ accommodations |-> {[day_id |-> day_id, accommodation_id |-> a] : a \in day_data.accommodation_id},
    activities     |-> [i \in 1..Len(day_data.activity_ids) |-> <<day_id, day_data.activity_ids[i]>>],
    transfers      |-> [i \in 1..Len(day_data.transfer_ids) |-> <<day_id, day_data.transfer_ids[i]>>] ]

\* What the loop body leaves pending for one day (main.py 149-165).
PendingOfDay(day_id, day_data) ==
  [ accommodations |-> IF Truthy(day_data.accommodation_id)
                       THEN {[day_id |-> day_id, accommodation_id |-> a] : a \in day_data.accommodation_id}
                       ELSE {},
    activities     |-> [i \in 1..Len(day_data.activity_ids) |-> <<day_id, day_data.activity_ids[i]>>],
    transfers      |-> [i \in 1..Len(day_data.transfer_ids) |-> <<day_id, day_data.transfer_ids[i]>>] ]

\* The "order" value of the i-th link row a flush inserts for a collection:
\* the INSERT names day_id and the entity id only.
LinkOrder(i) == order_default

\* The link rows one flush inserts for the appends to a collection, in
\* append order.
LinkRows(appends, first) ==
  {LinkRow(appends[i][1], appends[i][2], LinkOrder(i - 1), first + i - 1) : i \in 1..Len(appends)}

\* A unit of work that writes one link row for an object appended twice:
\* only a primary key already in the table is rejected.
DuplicateOfStoredLink(table, appends) ==
  \E i \in 1..Len(appends) : \E l \in table : <<l.day_id, l.ref>> = appends[i]

\* A primary key (day_id, id) inserted twice, or already in the table.
DuplicateLink(table, appends) ==
  \/ \E i, j \in 1..Len(appends) : i < j /\ appends[i] = appends[j]
  \/ \E i \in 1..Len(appends) : \E l \in table : <<l.day_id, l.ref>> = appends[i]

\* The flush against link tables that have no primary key: nothing is
\* rejected.
NoPrimaryKey(visible, p) == FALSE

\* The flush of the pending objects raises IntegrityError.
IntegrityError(visible, p) ==
  \/ DuplicateLink(visible.day_activities, p.activities)
  \/ DuplicateLink(visible.day_transfers, p.transfers)
  \/ \E a \in p.accommodations : \E l \in visible.day_accommodations : l.day_id = a.day_id

RECURSIVE WithIds(_, _)
\* DayAccommodation rows with their new primary keys.
WithIds(rows, first) ==
  IF rows = {} THEN {}
  ELSE LET r == CHOOSE x \in rows : TRUE
       IN  {[id |-> first, day_id |-> r.day_id, accommodation_id |-> r.accommodation_id]}
           \cup WithIds(rows \ {r}, first + 1)

\* The rows a successful flush of the pending objects writes.
Flushed(visible, p) ==
  [ EmptyStore EXCEPT
      !.day_accommodations = WithIds(p.accommodations, NextId(visible.day_accommodations)),
      !.day_activities     = LinkRows(p.activities, NextRowid(visible.day_activities)),
      !.day_transfers      = LinkRows(p.transfers, NextRowid(visible.day_transfers)) ]

\* ---------------------------------------------------------------- state
VARIABLES
  seeded,    \* seed_database() has run on the file the service opened
  deleted,   \* the activity and transfer ids another process has deleted
             \* from the file
  plan,      \* the scan order the engine's plan gives link rows of equal keys
  db,        \* the rows committed since start-up, table by table
  pc,        \* where the creation request in flight stands in create_itinerary
  req,       \* its ItineraryCreate body
  txn,       \* the rows its session has flushed and not committed
  pending,   \* the objects its session holds unflushed
  new_id,    \* db_itinerary.id once flushed, 0 before
  processed, \* day specifications the write loop has taken
  queried,   \* its session has sent a statement to the store
  fault,     \* the step at which the store raised an error that is not an
             \* IntegrityError on it, "" while none has
  response,  \* its response, once pc = "done"
  pre,       \* db when it was received
  created,   \* the last request that committed: its body, the id of its
             \* itinerary, the status it answered with (201, or 500 when the
             \* read back failed)
  rresp,     \* the response of the read request served last, if any
  prev       \* a detail response a client has kept, no commit since

vars == <<seeded, deleted, plan, db, pc, req, txn, pending, new_id, processed, queried, fault, response, pre, created, rresp, prev>>

NoRequest == [duration_nights |-> 0, days |-> <<>>]

\* A read response: the handler, its arguments, whether its body ran a
\* query, and the response.
Read(handler, args, ran, resp) == [handler |-> handler, args |-> args, queried |-> ran, resp |-> resp]

NoRead == Read("", <<>>, FALSE, NoResponse)

NoCreated == [days |-> <<>>, id |-> 0, status |-> 0]

\* Rows committed since start-up.
Rows(d) ==
  Cardinality(d.itineraries) + Cardinality(d.days) + Cardinality(d.day_accommodations)
    + Cardinality(d.day_activities) + Cardinality(d.day_transfers)

Init ==
  /\ seeded \in BOOLEAN
  /\ deleted = NoIds
  /\ plan \in ScanOrders
  /\ db = EmptyStore
  /\ pc = "idle"
  /\ req = NoRequest
  /\ txn = EmptyStore
  /\ pending = NoPending
  /\ new_id = 0
  /\ processed = 0
  /\ queried = FALSE
  /\ fault = ""
  /\ response = NoResponse
  /\ pre = db
  /\ created = NoCreated
  /\ rresp = NoRead
  /\ prev = NoRead

\* The committed tables when d is what has been committed since start-up.
Tables(d) ==
  LET s == Merge(IF seeded THEN SeededStore ELSE EmptyStore, d)
  IN  [s EXCEPT !.activities = @ \ deleted.activities,
                !.transfers  = @ \ deleted.transfers]

\* The committed tables.
Store == Tables(db)

\* What the session of the creation request sees: committed rows and its own.
Visible == Merge(Store, txn)

\* db.rollback() followed by the error response.
Fail(resp) ==
  /\ pc' = "done"
  /\ response' = resp
  /\ txn' = EmptyStore
  /\ pending' = NoPending

\* ----------------------------------------------- POST /itineraries/
\* main.py 33-83: the request arrives and its day numbers are checked.
Receive(r) ==
  /\ req' = r
  /\ pre' = db
  /\ txn' = EmptyStore
  /\ pending' = NoPending
  /\ new_id' = 0
  /\ processed' = 0
  /\ queried' = FALSE
  /\ fault' = ""
  /\ IF r.days # <<>> /\ HasDuplicateDayNumbers(r.days)
     THEN pc' = "done" /\ response' = HTTPException(400, DuplicateDayNumber, NoIds)
     ELSE pc' = "validate" /\ response' = NoResponse
  /\ created' = NoCreated
  /\ UNCHANGED <<seeded, deleted, plan, db, rresp, prev>>

\* A client posts one of the request bodies that fit in what is left of
\* MaxRows; requests are taken one at a time.
Post ==
  /\ pc = "idle"
  /\ rresp = NoRead
  /\ Rows(db) < MaxRows
  /\ \E r \in Requests(MaxRows - Rows(db)) : Receive(r)

\* The existence check of a handler that has written and committed the
\* Itinerary row before it validates what the days reference.
ValidateAfterWrite(failed) ==
  /\ pc = "validate"
  /\ queried' = TRUE
  /\ fault' = IF failed THEN "validate" ELSE fault
  /\ db' = [db EXCEPT !.itineraries = @ \cup
              {[id |-> NextId(Store.itineraries), duration_nights |-> req.duration_nights,
                is_recommended |-> FALSE]}]
  /\ LET raised == ValidationRaises(Store, req.days, failed)
     IN  IF raised # <<>>
         THEN pc' = "done" /\ response' = ValidationExcept(raised[1])
         ELSE pc' = "add" /\ response' = NoResponse
  /\ UNCHANGED <<seeded, deleted, plan, req, txn, pending, new_id, processed, pre, created, rresp, prev>>

\* main.py 85-124: the existence check.
Validate(failed) ==
  /\ pc = "validate"
  /\ queried' = TRUE
  /\ fault' = IF failed THEN "validate" ELSE fault
  /\ LET raised == ValidationRaises(Store, req.days, failed)
     IN  IF raised # <<>>
         THEN pc' = "done" /\ response' = ValidationExcept(raised[1])
         ELSE pc' = "add" /\ response' = NoResponse
  /\ UNCHANGED <<seeded, deleted, plan, db, req, txn, pending, new_id, processed, pre, created, rresp, prev>>

\* The Itinerary row added with is_recommended=True.
FlushItineraryRecommended(failed) ==
  /\ pc = "add"
  /\ fault' = IF failed THEN "flush" ELSE fault
  /\ IF failed
     THEN /\ Fail(HTTPException(500, PersistenceFailure, NoIds))
          /\ UNCHANGED new_id
     ELSE /\ new_id' = NextId(Visible.itineraries)
          /\ txn' = [txn EXCEPT !.itineraries = @ \cup
                      {[id |-> new_id', duration_nights |-> req.duration_nights,
                        is_recommended |-> TRUE]}]
          /\ pc' = "days"
          /\ UNCHANGED <<pending, response>>
  /\ UNCHANGED <<seeded, deleted, plan, db, req, processed, queried, pre, created, rresp, prev>>

\* main.py 127-137: the Itinerary row is added and flushed.
FlushItinerary(failed) ==
  /\ pc = "add"
  /\ fault' = IF failed THEN "flush" ELSE fault
  /\ IF failed
     THEN /\ Fail(HTTPException(500, PersistenceFailure, NoIds))
          /\ UNCHANGED new_id
     ELSE /\ new_id' = NextId(Visible.itineraries)
          /\ txn' = [txn EXCEPT !.itineraries = @ \cup
                      {[id |-> new_id', duration_nights |-> req.duration_nights,
                        is_recommended |-> FALSE]}]
          /\ pc' = "days"
          /\ UNCHANGED <<pending, response>>
  /\ UNCHANGED <<seeded, deleted, plan, db, req, processed, queried, pre, created, rresp, prev>>

\* main.py 140-165: one turn of the loop over the sorted day specifications.
\* db.flush() writes the Day row and what the turn before left pending.
ProcessDay(failed) ==
  /\ pc = "days"
  /\ processed < Len(req.days)
  /\ LET day_data == ProcessingOrder(req.days)[processed + 1]
         day_id   == NextId(Visible.days)
     IN  IF failed
         THEN /\ Fail(HTTPException(500, PersistenceFailure, NoIds))
              /\ fault' = "flush"
              /\ UNCHANGED processed
         ELSE IF IntegrityError(Visible, pending)
         THEN /\ Fail(HTTPException(400, ConstraintViolation, NoIds))
              /\ UNCHANGED <<processed, fault>>
         ELSE /\ txn' = Merge(Merge(txn, Flushed(Visible, pending)),
                              [EmptyStore EXCEPT !.days =
                                 {[id |-> day_id, itinerary_id |-> new_id,
                                   day_number |-> day_data.day_number]}])
              /\ pending' = PendingOfDay(day_id, day_data)
              /\ processed' = processed + 1
              /\ UNCHANGED <<pc, response, fault>>
  /\ UNCHANGED <<seeded, deleted, plan, db, req, new_id, queried, pre, created, rresp, prev>>

\* main.py 167-184: db.commit() flushes what is pending and commits;
\* db.refresh(db_itinerary) follows inside the same try block.
\* failed: "no", "commit" (the flush or the COMMIT raised), "refresh".
Commit(failed) ==
  /\ pc = "days"
  /\ processed = Len(req.days)
  /\ IF failed = "commit"
     THEN /\ Fail(HTTPException(500, PersistenceFailure, NoIds))
          /\ fault' = "commit"
          /\ UNCHANGED <<db, prev>>
     ELSE IF IntegrityError(Visible, pending)
     THEN /\ Fail(HTTPException(400, ConstraintViolation, NoIds))
          /\ UNCHANGED <<db, fault, prev>>
     ELSE /\ db' = Merge(Merge(db, txn), Flushed(Visible, pending))
          /\ fault' = IF failed = "refresh" THEN "refresh" ELSE fault
          /\ prev' = NoRead
          /\ IF failed = "refresh"
             THEN Fail(HTTPException(500, PersistenceFailure, NoIds))
             ELSE /\ pc' = "reread"
                  /\ txn' = EmptyStore
                  /\ pending' = NoPending
                  /\ UNCHANGED response
  /\ UNCHANGED <<seeded, deleted, plan, req, new_id, processed, queried, pre, created, rresp>>

\* The read back of a handler that commits after it, and rolls back when it
\* fails.
ReReadBeforeCommit(failed) ==
  /\ pc = "reread"
  /\ pc' = "done"
  /\ fault' = IF failed THEN "reread" ELSE fault
  /\ LET found == {it \in Store.itineraries : it.id = new_id}
     IN  IF failed \/ Cardinality(found) # 1
         THEN /\ response' = HTTPException(500, PostCommitReadFailure, NoIds)
              /\ created' = [days |-> req.days, id |-> new_id, status |-> 500]
              /\ db' = pre
         ELSE /\ response' = Response(201, "", NoIds,
                                      <<ItineraryDetail(Store, CHOOSE it \in found : TRUE, plan)>>)
              /\ created' = [days |-> req.days, id |-> new_id, status |-> 201]
              /\ UNCHANGED db
  /\ UNCHANGED <<seeded, deleted, plan, req, txn, pending, new_id, processed, queried, pre, rresp, prev>>

\* main.py 186-204: the created itinerary is read back for the response.
ReRead(failed) ==
  /\ pc = "reread"
  /\ pc' = "done"
  /\ fault' = IF failed THEN "reread" ELSE fault
  /\ LET found == {it \in Store.itineraries : it.id = new_id}
     IN  IF failed \/ Cardinality(found) # 1
         THEN /\ response' = HTTPException(500, PostCommitReadFailure, NoIds)
              /\ created' = [days |-> req.days, id |-> new_id, status |-> 500]
         ELSE /\ response' = Response(201, "", NoIds,
                                      <<ItineraryDetail(Store, CHOOSE it \in found : TRUE, plan)>>)
              /\ created' = [days |-> req.days, id |-> new_id, status |-> 201]
  /\ UNCHANGED <<seeded, deleted, plan, db, req, txn, pending, new_id, processed, queried, pre, rresp, prev>>

\* get_db without its `finally`: db.close() follows the yield and runs
\* when the handler returned, not when it raised.
CloseCreateReturned ==
  /\ pc = "done"
  /\ response.status_code = 201
  /\ pc' = "idle"
  /\ req' = NoRequest
  /\ new_id' = 0
  /\ processed' = 0
  /\ queried' = FALSE
  /\ fault' = ""
  /\ response' = NoResponse
  /\ pre' = db
  /\ UNCHANGED <<seeded, deleted, plan, db, txn, pending, created, rresp, prev>>

\* database.py 10-15, `finally: db.close()`: the creation request ends, its
\* session and everything it held go.
CloseCreate ==
  /\ pc = "done"
  /\ pc' = "idle"
  /\ req' = NoRequest
  /\ new_id' = 0
  /\ processed' = 0
  /\ queried' = FALSE
  /\ fault' = ""
  /\ response' = NoResponse
  /\ pre' = db
  /\ UNCHANGED <<seeded, deleted, plan, db, txn, pending, created, rresp, prev>>

\* A read request that ends with db.close() preceded by PRAGMA optimize,
\* which refreshes the statistics the planner reads.
CloseReadOptimizing ==
  /\ rresp # NoRead
  /\ rresp' = NoRead
  /\ plan' = IF plan = "rowid" THEN "primary_key" ELSE "rowid"
  /\ UNCHANGED <<seeded, deleted, db, pc, req, txn, pending, new_id, processed, queried, fault, response, pre, created, prev>>

\* database.py 10-15: a read request ends.
CloseRead ==
  /\ rresp # NoRead
  /\ rresp' = NoRead
  /\ UNCHANGED <<seeded, deleted, plan, db, pc, req, txn, pending, new_id, processed, queried, fault, response, pre, created, prev>>

\* ------------------------------------------------------ read handlers
SkipInputs == {-1, 0, 1}
LimitInputs == {-1, 0, 2, 100}
ItineraryIdInputs == {1, 2, 8, 9}
DurationQueryInputs == {1, 2, 3, 8, 9}

\* SELECT ... LIMIT limit OFFSET skip over rows already in scan order: a
\* negative OFFSET counts as 0, a negative LIMIT as no limit.
LimitOffset(rows, skip, limit) ==
  LET first == (IF skip < 0 THEN 0 ELSE skip) + 1
      last  == IF limit < 0 \/ first + limit - 1 > Len(rows) THEN Len(rows) ELSE first + limit - 1
  IN  IF first > last THEN <<>> ELSE SubSeq(rows, first, last)

\* The list query with skip taken as the position of the first row.
ListQueryFromSkip(store, skip, limit) ==
  LET rows == LimitOffset(ById(store.itineraries), skip - 1, limit)
  IN  [i \in 1..Len(rows) |-> ItineraryList(rows[i])]

\* main.py 214-242: db.query(Itinerary).offset(skip).limit(limit).all()
ListQuery(store, skip, limit) ==
  LET rows == LimitOffset(ById(store.itineraries), skip, limit)
  IN  [i \in 1..Len(rows) |-> ItineraryList(rows[i])]

read_itineraries(skip, limit) ==
  /\ pc = "idle"
  /\ rresp = NoRead
  /\ rresp' = Read("read_itineraries", <<skip, limit>>, TRUE,
                   Response(200, "", NoIds, ListQuery(Store, skip, limit)))
  /\ UNCHANGED <<seeded, deleted, plan, db, pc, req, txn, pending, new_id, processed, queried, fault, response, pre, created, prev>>

\* The detail query without its filter: .first() of the whole table.
FirstItinerary(store, itinerary_id) ==
  LET rows == ById(store.itineraries)
  IN  IF rows = <<>> THEN <<>> ELSE <<rows[1]>>

\* main.py 304-306: .filter(Itinerary.id == itinerary_id).first()
DetailQuery(store, itinerary_id) ==
  LET rows == ById({it \in store.itineraries : it.id = itinerary_id})
  IN  IF rows = <<>> THEN <<>> ELSE <<rows[1]>>

\* main.py 252-310
read_itinerary(itinerary_id) ==
  /\ pc = "idle"
  /\ rresp = NoRead
  /\ LET itinerary == DetailQuery(Store, itinerary_id)
     IN  rresp' = Read("read_itinerary", <<itinerary_id>>, TRUE,
                       IF itinerary = <<>>
                       THEN HTTPException(404, NotFound, NoIds)
                       ELSE Response(200, "", NoIds, <<ItineraryDetail(Store, itinerary[1], plan)>>))
  /\ UNCHANGED <<seeded, deleted, plan, db, pc, req, txn, pending, new_id, processed, queried, fault, response, pre, created, prev>>

\* main.py 322-327: Query(..., ge=2, le=8)
duration_ge == 2
duration_le == 8

\* The range check with an exclusive upper end.
DurationBelowLe(duration) == duration >= duration_ge /\ duration < duration_le

DurationAccepted(duration) == duration >= duration_ge /\ duration <= duration_le

\* The query without the is_recommended filter.
ByDurationQuery(store, duration, scan) ==
  LET rows == ById({it \in store.itineraries : it.duration_nights = duration})
  IN  [i \in 1..Len(rows) |-> ItineraryDetail(store, rows[i], scan)]

\* main.py 337-349: filter(is_recommended == True, duration_nights ==
\* duration).order_by(Itinerary.id).all()
RecommendedQuery(store, duration, scan) ==
  LET rows == ById({it \in store.itineraries :
                      it.is_recommended /\ it.duration_nights = duration})
  IN  [i \in 1..Len(rows) |-> ItineraryDetail(store, rows[i], scan)]

\* main.py 321-351
get_recommended_itineraries_by_duration(duration) ==
  /\ pc = "idle"
  /\ rresp = NoRead
  /\ rresp' = IF DurationAccepted(duration)
              THEN Read("get_recommended_itineraries_by_duration", <<duration>>, TRUE,
                        Response(200, "", NoIds, RecommendedQuery(Store, duration, plan)))
              ELSE Read("get_recommended_itineraries_by_duration", <<duration>>, FALSE,
                        HTTPException(422, InvalidInput, NoIds))
  /\ UNCHANGED <<seeded, deleted, plan, db, pc, req, txn, pending, new_id, processed, queried, fault, response, pre, created, prev>>

\* ------------------------------------------------------------ the system
Next ==
  \/ Post
  \/ \E failed \in BOOLEAN : Validate(failed)
  \/ \E failed \in BOOLEAN : FlushItinerary(failed)
  \/ \E failed \in BOOLEAN : ProcessDay(failed)
  \/ \E failed \in {"no", "commit", "refresh"} : Commit(failed)
  \/ \E failed \in BOOLEAN : ReRead(failed)
  \/ CloseCreate
  \/ CloseRead
  \/ \E skip \in SkipInputs, limit \in LimitInputs : read_itineraries(skip, limit)
  \/ \E itinerary_id \in ItineraryIdInputs : read_itinerary(itinerary_id)
  \/ \E duration \in DurationQueryInputs : get_recommended_itineraries_by_duration(duration)

Spec == Init /\ [][Next]_vars

\* ------------------------------------------------- a client that re-reads
\* The client of a detail read keeps the response it got, to set the next
\* one against it.
Remember ==
  /\ pc = "idle"
  /\ rresp.handler = "read_itinerary"
  /\ prev # rresp
  /\ prev' = rresp
  /\ UNCHANGED <<seeded, deleted, plan, db, pc, req, txn, pending, new_id, processed, queried, fault, response, pre, created, rresp>>

\* The ids the re-reading client asks for: 1 is the first seed itinerary or
\* the first created on an empty store, 8 the first created on the seed.
RepeatIdInputs == {1, 8}

\* Creation requests and detail reads, with a client that re-reads.
NextRepeat ==
  \/ Post
  \/ \E failed \in BOOLEAN : Validate(failed)
  \/ \E failed \in BOOLEAN : FlushItinerary(failed)
  \/ \E failed \in BOOLEAN : ProcessDay(failed)
  \/ \E failed \in {"no", "commit", "refresh"} : Commit(failed)
  \/ \E failed \in BOOLEAN : ReRead(failed)
  \/ CloseCreate
  \/ CloseRead
  \/ \E itinerary_id \in RepeatIdInputs : read_itinerary(itinerary_id)
  \/ Remember

SpecRepeat == Init /\ [][NextRepeat]_vars

\* ------------------------------------------- reads during a creation
\* Every request has a session of its own (database.py 7-15) on a
\* connection of its own: its queries see the committed rows and not what
\* another session has flushed. pysqlite opens no transaction for a SELECT,
\* so the queries of one read request are separate reads of the file, and a
\* commit can fall between them.

\* Every request on one session: a query sees what the creation request
\* has flushed.
SessionView == Visible

\* database.py 7-15: what a query of a read request sees.
ReadView == Store

\* A read request between its first query and the loading of the days,
\* accommodations, activities and transfers of the rows it found.
Loading(rows) == Response(0, "", NoIds, rows)

\* main.py 337-349: the rows of the first query of the recommended read.
RecommendedRows(store, duration) ==
  ById({it \in store.itineraries : it.is_recommended /\ it.duration_nights = duration})

\* main.py 304-309: the first query of the detail read.
QueryItinerary(itinerary_id) ==
  /\ rresp = NoRead
  /\ LET itinerary == DetailQuery(ReadView, itinerary_id)
     IN  rresp' = Read("read_itinerary", <<itinerary_id>>, TRUE,
                       IF itinerary = <<>>
                       THEN HTTPException(404, NotFound, NoIds)
                       ELSE Loading(itinerary))
  /\ UNCHANGED <<seeded, deleted, plan, db, pc, req, txn, pending, new_id, processed, queried, fault, response, pre, created, prev>>

\* main.py 241-242: the one query of the list read, with the default skip
\* and limit.
QueryList ==
  /\ rresp = NoRead
  /\ rresp' = Read("read_itineraries", <<0, 100>>, TRUE,
                   Response(200, "", NoIds, ListQuery(ReadView, 0, 100)))
  /\ UNCHANGED <<seeded, deleted, plan, db, pc, req, txn, pending, new_id, processed, queried, fault, response, pre, created, prev>>

\* main.py 337-349: the first query of the recommended read.
QueryRecommended(duration) ==
  /\ rresp = NoRead
  /\ rresp' = Read("get_recommended_itineraries_by_duration", <<duration>>, TRUE,
                   Loading(RecommendedRows(ReadView, duration)))
  /\ UNCHANGED <<seeded, deleted, plan, db, pc, req, txn, pending, new_id, processed, queried, fault, response, pre, created, prev>>

\* models.py 41-69, main.py 338-345: the queries that load the days of the
\* rows found and what the days link to, and the response.
LoadRelationships ==
  /\ rresp.handler # ""
  /\ rresp.resp.status_code = 0
  /\ LET rows == rresp.resp.body
     IN  rresp' = [rresp EXCEPT !.resp =
                     Response(200, "", NoIds,
                              [i \in 1..Len(rows) |-> ItineraryDetail(ReadView, rows[i], plan)])]
  /\ UNCHANGED <<seeded, deleted, plan, db, pc, req, txn, pending, new_id, processed, queried, fault, response, pre, created, prev>>

\* database.py 10-15: the read request has its response and ends.
CloseReadDone ==
  /\ rresp.resp.status_code # 0
  /\ CloseRead

\* main.py 33-83: a creation request arrives, whatever the read request is
\* doing.
PostDuringRead ==
  /\ pc = "idle"
  /\ Rows(db) < MaxRows
  /\ \E r \in Requests(MaxRows - Rows(db)) : Receive(r)

\* A creation request and a read request at a time, their steps in any
\* order.
NextConcurrent ==
  \/ PostDuringRead
  \/ \E failed \in BOOLEAN : Validate(failed)
  \/ \E failed \in BOOLEAN : FlushItinerary(failed)
  \/ \E failed \in BOOLEAN : ProcessDay(failed)
  \/ \E failed \in {"no", "commit", "refresh"} : Commit(failed)
  \/ \E failed \in BOOLEAN : ReRead(failed)
  \/ CloseCreate
  \/ \E itinerary_id \in RepeatIdInputs : QueryItinerary(itinerary_id)
  \/ QueryList
  \/ \E duration \in DurationInputs : QueryRecommended(duration)
  \/ LoadRelationships
  \/ CloseReadDone

SpecConcurrent == Init /\ [][NextConcurrent]_vars

\* ------------------------------------------------ requests run to the end
\* A request holds the session get_db made for it (database.py 11) from its
\* arrival to db.close() (database.py 15): the creation request while pc is
\* not "idle", a read request while rresp holds its response.

\* The steps of the creation handler and the exit of get_db around it.
CreateSteps ==
  \/ \E failed \in BOOLEAN : Validate(failed)
  \/ \E failed \in BOOLEAN : FlushItinerary(failed)
  \/ \E failed \in BOOLEAN : ProcessDay(failed)
  \/ \E failed \in {"no", "commit", "refresh"} : Commit(failed)
  \/ \E failed \in BOOLEAN : ReRead(failed)
  \/ CloseCreate

\* A client posts one of the request bodies of up to SessionRows rows while
\* the store has room for it.
PostSession ==
  /\ pc = "idle"
  /\ rresp = NoRead
  /\ Rows(db) + SessionRows <= MaxRows
  /\ \E r \in Requests(SessionRows) : Receive(r)

\* Creation requests, and reads that end on each of their exit paths: a
\* detail read that finds its id and one that does not, a list read, a
\* recommended read with a duration in range and one below it.
NextSessions ==
  \/ PostSession
  \/ CreateSteps
  \/ CloseRead
  \/ \E itinerary_id \in RepeatIdInputs : read_itinerary(itinerary_id)
  \/ read_itineraries(0, 100)
  \/ \E duration \in {duration_ge - 1, duration_ge} : get_recommended_itineraries_by_duration(duration)

\* The service on a fresh file, before seed.py has run: what a session
\* holds and when it is closed does not depend on the rows of the tables.
InitSessions == Init /\ ~seeded

\* The handlers are synchronous functions with no wait in them, run by a
\* worker thread to their return or raise, after which the framework runs
\* the rest of get_db: a request that can take a step takes it.
SpecSessions ==
  InitSessions /\ [][NextSessions]_vars /\ WF_vars(CreateSteps) /\ WF_vars(CloseRead)

\* ------------------------------------- another process deletes a catalog row
\* The store is a file (models.py 146) that a process other than the
\* service can write. The engine is created without PRAGMA foreign_keys
\* (models.py 147, database.py 5), so SQLite does not enforce the ForeignKey
\* columns of the link tables: a DELETE of a catalog row succeeds whatever
\* links to it, and an INSERT of a link row succeeds whatever it names.
\* The deletion of an accommodation is left out: its link row is written as
\* well, but the response then fails schemas.DayAccommodationDetail.

\* The catalog ids the other process may delete.
DeleteInputs == {id \in IdInputs : id \in SeededStore.activities \cap SeededStore.transfers}

\* The other process commits DELETE FROM activities (or transfers) WHERE id
\* = :id while a creation request stands between its existence check and
\* its commit.
DeleteCatalog(kind, id) ==
  /\ pc \in {"add", "days"}
  /\ id \in Store[kind]
  /\ deleted' = [deleted EXCEPT ![kind] = @ \cup {id}]
  /\ UNCHANGED <<seeded, plan, db, pc, req, txn, pending, new_id, processed, queried, fault, response, pre, created, rresp, prev>>

\* Creation requests, the other process, and the detail read of the ids
\* RepeatIdInputs.
NextDeletion ==
  \/ Post
  \/ CreateSteps
  \/ \E kind \in {"activities", "transfers"}, id \in DeleteInputs : DeleteCatalog(kind, id)
  \/ \E itinerary_id \in RepeatIdInputs : read_itinerary(itinerary_id)
  \/ CloseRead

SpecDeletion == Init /\ [][NextDeletion]_vars

\* ================================================================ claims
\* C1: a creation request in which two day specifications share a
\* day_number ends with status 400 and the DuplicateDayNumber detail, and its
\* session has sent no statement to the store: the duplicate-day check
\* decides before any existence check, also when the request references ids
\* that are in no catalog.
C1_DuplicateDayNumberFirst ==
  (/\ pc # "idle"
   /\ \E i, j \in 1..Len(req.days) : i # j /\ req.days[i].day_number = req.days[j].day_number)
    => /\ pc = "done"
       /\ response = HTTPException(400, DuplicateDayNumber, NoIds)
       /\ ~queried
       /\ db = pre

\* C1 witness: a rejected request whose two days share a day_number and
\* which references an accommodation that is in no catalog.
C1_Witness ==
  /\ pc = "done"
  /\ response.detail = DuplicateDayNumber
  /\ Len(req.days) = 2
  /\ req.days[1].day_number = req.days[2].day_number
  /\ MissingIds(Tables(pre), req.days).accommodations # {}

\* C2 (as claimed): a creation request with unique day numbers that
\* references an id that is in no catalog, the store raising nothing, ends
\* with status 400 and the MissingReference detail.
C2_MissingReferenceIs400 ==
  (/\ pc = "done"
   /\ \A i, j \in 1..Len(req.days) : i # j => req.days[i].day_number # req.days[j].day_number
   /\ MissingIds(Tables(pre), req.days) # NoIds
   /\ fault = "")
    => /\ response.status_code = 400
       /\ response.detail = MissingReference

\* C3 (as claimed): the response to a creation request rejected for missing
\* references lists, kind by kind, every referenced id that is not in the
\* catalog.
C3_EveryMissingIdListed ==
  (/\ pc = "done"
   /\ \A i, j \in 1..Len(req.days) : i # j => req.days[i].day_number # req.days[j].day_number
   /\ MissingIds(Tables(pre), req.days) # NoIds
   /\ fault = "")
    => response.ids =
         [ accommodations |-> {a \in required_acc_ids(req.days) : a \notin Tables(pre).accommodations},
           activities     |-> {a \in required_act_ids(req.days) : a \notin Tables(pre).activities},
           transfers      |-> {t \in required_trans_ids(req.days) : t \notin Tables(pre).transfers} ]

\* C4: the detail read of an itinerary a client has just created returns one
\* day per submitted day specification, the submitted day numbers in
\* ascending order, whatever the order of submission.
C4_DaysAscendingRoundTrip ==
  (/\ created.status = 201
   /\ rresp.handler = "read_itinerary"
   /\ rresp.args = <<created.id>>)
    => /\ rresp.resp.status_code = 200
       /\ LET days == rresp.resp.body[1].days
          IN  /\ Len(days) = Len(created.days)
              /\ \A i \in 1..(Len(days) - 1) : days[i].day_number < days[i + 1].day_number
              /\ {days[i].day_number : i \in 1..Len(days)}
                   = {created.days[i].day_number : i \in 1..Len(created.days)}

\* C4 witness: the detail read of an itinerary created from three day
\* specifications submitted as day 3, day 1, day 2.
C4_Witness ==
  /\ created.status = 201
  /\ Len(created.days) = 3
  /\ created.days[1].day_number = 3
  /\ created.days[2].day_number = 1
  /\ rresp.handler = "read_itinerary"
  /\ rresp.args = <<created.id>>
  /\ rresp.resp.status_code = 200
  /\ Len(rresp.resp.body[1].days) = 3

\* C5 (as claimed): in the detail read of an itinerary a client has just
\* created, the activities and the transfers of every day are the
\* activity_ids and transfer_ids of that day's specification, in the order
\* the request listed them.
C5_LinkOrderRoundTrip ==
  (/\ created.status = 201
   /\ rresp.handler = "read_itinerary"
   /\ rresp.args = <<created.id>>
   /\ rresp.resp.status_code = 200)
    => LET days == rresp.resp.body[1].days
       IN  \A i \in 1..Len(days) : \A j \in 1..Len(created.days) :
             days[i].day_number = created.days[j].day_number =>
               /\ days[i].activities = created.days[j].activity_ids
               /\ days[i].transfers = created.days[j].transfer_ids

\* C6 (as claimed): a creation request that ends with the ConstraintViolation
\* or the PersistenceFailure response has left no row in the store: the
\* committed rows are those from before the request.
C6_FailedWriteLeavesNoRow ==
  (pc = "done" /\ response.detail \in {ConstraintViolation, PersistenceFailure})
    => db = pre

\* C7: the detail read of an id answers 200 with the itinerary of that id
\* and every day of it when the store holds an itinerary with that id, and
\* 404 NotFound when it holds none.
C7_DetailOrNotFound ==
  rresp.handler = "read_itinerary" =>
    LET id == rresp.args[1]
        day_ids == {d.id : d \in {x \in Store.days : x.itinerary_id = id}}
    IN  IF \E it \in Store.itineraries : it.id = id
        THEN /\ rresp.resp.status_code = 200
             /\ Len(rresp.resp.body) = 1
             /\ rresp.resp.body[1].id = id
             /\ Len(rresp.resp.body[1].days) = Cardinality(day_ids)
             /\ {rresp.resp.body[1].days[i].id : i \in 1..Len(rresp.resp.body[1].days)} = day_ids
        ELSE rresp.resp = HTTPException(404, NotFound, NoIds)

\* C7 witness: the detail read of itinerary 2 in a store that holds
\* itineraries 1 and 2, the second with two days.
C7_Witness ==
  /\ rresp.handler = "read_itinerary"
  /\ rresp.args = <<2>>
  /\ rresp.resp.status_code = 200
  /\ rresp.resp.body[1].id = 2
  /\ Len(rresp.resp.body[1].days) >= 2
  /\ \E it \in Store.itineraries : it.id = 1

\* C8: recommended-by-duration with a duration d in 2..8 answers 200 with
\* the itineraries that are recommended and last d nights, each once, in
\* ascending id; with none of them, an empty list.
C8_RecommendedByDuration ==
  (/\ rresp.handler = "get_recommended_itineraries_by_duration"
   /\ rresp.args[1] \in 2..8)
    => LET match == {it.id : it \in {x \in Store.itineraries :
                                       x.is_recommended /\ x.duration_nights = rresp.args[1]}}
           body  == rresp.resp.body
       IN  /\ rresp.resp.status_code = 200
           /\ Len(body) = Cardinality(match)
           /\ {body[i].id : i \in 1..Len(body)} = match
           /\ \A i \in 1..(Len(body) - 1) : body[i].id < body[i + 1].id

\* C8 witness: duration 2 is asked of a store whose only itinerary of two
\* nights was created through the API, so is not recommended: 200 with an
\* empty list.
C8_Witness ==
  /\ rresp.handler = "get_recommended_itineraries_by_duration"
  /\ rresp.args = <<2>>
  /\ ~seeded
  /\ \E it \in Store.itineraries : it.duration_nights = 2
  /\ rresp.resp.status_code = 200
  /\ rresp.resp.body = <<>>

\* C9: recommended-by-duration answers 200 for a duration in 2..8 and 422
\* for any other, and then has sent no query to the store.
C9_DurationRange ==
  rresp.handler = "get_recommended_itineraries_by_duration" =>
    IF 2 <= rresp.args[1] /\ rresp.args[1] <= 8
    THEN rresp.resp.status_code = 200 /\ rresp.queried
    ELSE rresp.resp = HTTPException(422, InvalidInput, NoIds) /\ ~rresp.queried

\* C9 witness: duration 8 is accepted.
C9_Witness ==
  /\ rresp.handler = "get_recommended_itineraries_by_duration"
  /\ rresp.args = <<8>>
  /\ rresp.resp.status_code = 200
  /\ seeded
  /\ Len(rresp.resp.body) = 1

\* C10 (as claimed): the list answers with the itineraries at positions
\* skip .. skip + limit - 1 (counted from 0) of the stored itineraries in
\* ascending id.
C10_ListPositions ==
  rresp.handler = "read_itineraries" =>
    LET skip  == rresp.args[1]
        limit == rresp.args[2]
        all   == ById(Store.itineraries)
        pos   == {p \in 0..(Len(all) - 1) : skip <= p /\ p <= skip + limit - 1}
        body  == rresp.resp.body
    IN  /\ rresp.resp.status_code = 200
        /\ Len(body) = Cardinality(pos)
        /\ \A i \in 1..Len(body) : i + skip \in 1..Len(all) /\ body[i].id = all[i + skip].id

\* C10 (amended): for skip >= 0 and limit >= 0 the list answers with the
\* itineraries at positions skip .. skip + limit - 1 (counted from 0) of the
\* stored itineraries in ascending id.
C10_ListPositionsNonNegative ==
  (/\ rresp.handler = "read_itineraries"
   /\ rresp.args[1] >= 0
   /\ rresp.args[2] >= 0)
    => LET skip  == rresp.args[1]
           limit == rresp.args[2]
           ids   == {it.id : it \in Store.itineraries}
           body  == rresp.resp.body
       IN  /\ rresp.resp.status_code = 200
           /\ \A i \in 1..(Len(body) - 1) : body[i].id < body[i + 1].id
           /\ \A i \in 1..Len(body) :
                /\ body[i].id \in ids
                /\ Cardinality({x \in ids : x < body[i].id}) = skip + i - 1
           /\ Len(body) = IF Cardinality(ids) - skip < 0 THEN 0
                          ELSE IF Cardinality(ids) - skip < limit THEN Cardinality(ids) - skip
                          ELSE limit

\* C10 witness: skip 1, limit 2 on a store of three itineraries or more, one
\* of them created through the API.
C10_Witness ==
  /\ rresp.handler = "read_itineraries"
  /\ rresp.args = <<1, 2>>
  /\ db.itineraries # {}
  /\ Cardinality(Store.itineraries) >= 3
  /\ Len(rresp.resp.body) = 2

C12_ValidationReadOnly ==
  (/\ pc = "done"
   /\ response.detail \in {DuplicateDayNumber, MissingReference, ValidationInfrastructureFailure})
    => /\ db = pre
       /\ txn = EmptyStore
       /\ pending = NoPending
       /\ new_id = 0

\* C12 witness: the existence check of a request fails on the store, in a
\* run in which an itinerary has been created before.
C12_Witness ==
  /\ pc = "done"
  /\ fault = "validate"
  /\ response.detail = ValidationInfrastructureFailure
  /\ db.itineraries # {}
  /\ req.days # <<>>

\* C13: when the transaction of a creation request has committed and the
\* read back fails, the request answers 500 PostCommitReadFailure and the
\* write stays: the itinerary is in the store with a day per day
\* specification, a later detail read of its id returns it with the
\* accommodation, activities and transfers of every day, and a later list
\* read returns it.
C13_PostCommitReadFailureKeepsWrite ==
  /\ (pc = "done" /\ fault = "reread")
       => /\ response = HTTPException(500, PostCommitReadFailure, NoIds)
          /\ \E it \in db.itineraries : it.id = new_id
          /\ Cardinality({d \in db.days : d.itinerary_id = new_id}) = Len(req.days)
  /\ (created.status = 500 /\ rresp.handler = "read_itinerary" /\ rresp.args = <<created.id>>)
       => /\ rresp.resp.status_code = 200
          /\ LET days == rresp.resp.body[1].days
             IN  /\ Len(days) = Len(created.days)
                 /\ \A i \in 1..Len(days) : \A j \in 1..Len(created.days) :
                      days[i].day_number = created.days[j].day_number =>
                        /\ days[i].accommodation_link = {a \in created.days[j].accommodation_id : a # 0}
                        /\ Range(days[i].activities) = Range(created.days[j].activity_ids)
                        /\ Len(days[i].activities) = Len(created.days[j].activity_ids)
                        /\ Range(days[i].transfers) = Range(created.days[j].transfer_ids)
                        /\ Len(days[i].transfers) = Len(created.days[j].transfer_ids)
  /\ (created.status = 500 /\ rresp.handler = "read_itineraries" /\ rresp.args = <<0, 100>>)
       => \E i \in 1..Len(rresp.resp.body) : rresp.resp.body[i].id = created.id

\* C13 witness: the detail read of an itinerary with an accommodation and
\* an activity on its day, whose creation request answered 500
\* PostCommitReadFailure.
C13_Witness ==
  /\ created.status = 500
  /\ rresp.handler = "read_itinerary"
  /\ rresp.args = <<created.id>>
  /\ rresp.resp.status_code = 200
  /\ Len(rresp.resp.body[1].days) >= 1
  /\ rresp.resp.body[1].days[1].accommodation_link # {}
  /\ Len(rresp.resp.body[1].days[1].activities) = 1

\* C14: in the write phase of a creation request, a link the storage layer
\* rejects as an integrity violation ends the request with 400
\* ConstraintViolation, and a storage error of another kind during a flush
\* or the commit ends it with 500 PersistenceFailure; in both cases the
\* transaction is rolled back: the committed rows are those from before
\* the request and nothing of it is left in the session.
C14_WritePhaseFailures ==
  LET repeats(ids) == \E i, j \in 1..Len(ids) : i < j /\ ids[i] = ids[j]
      rejected == \E i \in 1..Len(req.days) :
                    repeats(req.days[i].activity_ids) \/ repeats(req.days[i].transfer_ids)
  IN  /\ (pc = "done" /\ new_id # 0 /\ fault = "" /\ rejected)
           => /\ response = HTTPException(400, ConstraintViolation, NoIds)
              /\ db = pre /\ txn = EmptyStore /\ pending = NoPending
      /\ (pc = "done" /\ fault \in {"flush", "commit"})
           => /\ response = HTTPException(500, PersistenceFailure, NoIds)
              /\ db = pre /\ txn = EmptyStore /\ pending = NoPending

\* C14 witness: a request whose day links one activity twice has ended
\* with 400 ConstraintViolation after its Itinerary and Day rows were
\* flushed.
C14_Witness ==
  /\ pc = "done"
  /\ new_id # 0
  /\ processed = 1
  /\ response = HTTPException(400, ConstraintViolation, NoIds)
  /\ \E i \in 1..Len(req.days) : Len(req.days[i].activity_ids) = 2

\* C15 (as claimed): a creation request ends with 500
\* ValidationInfrastructureFailure when a query of the existence check
\* failed and only then: a request the client got wrong (a repeated day
\* number, a reference to an id in no catalog) never ends with it.
C15_InfrastructureFailureOnlyOnStorageFailure ==
  /\ (pc = "done" /\ fault = "validate")
       => response = HTTPException(500, ValidationInfrastructureFailure, NoIds)
  /\ (pc = "done" /\ response.detail = ValidationInfrastructureFailure)
       => fault = "validate"

\* C16: with the steps of a creation request and of a read request in any
\* order, every itinerary a read returns is a committed one, a detail or
\* recommended read returns it with all its committed days and links, and
\* a detail read that returns the itinerary of the creation request in
\* progress returns it after the commit with a day per day specification:
\* a read sees none of an itinerary or all of it.
C16_ReadsSeeNoneOrAll ==
  /\ rresp.resp.status_code = 200 =>
       \A i \in 1..Len(rresp.resp.body) :
         \E it \in Store.itineraries :
           /\ it.id = rresp.resp.body[i].id
           /\ rresp.handler # "read_itineraries" =>
                rresp.resp.body[i] = ItineraryDetail(Store, it, plan)
  /\ (rresp.resp.status_code \in {0, 200} /\ rresp.handler = "read_itinerary"
        /\ new_id # 0 /\ rresp.args = <<new_id>>)
       => /\ pc \in {"reread", "done"}
          /\ response.detail \notin {ConstraintViolation}
          /\ fault \notin {"flush", "commit"}
          /\ rresp.resp.status_code = 200 =>
               Len(rresp.resp.body[1].days) = Len(req.days)

\* C16 witness: a detail read has returned the two days of the itinerary
\* of a creation request that has committed and not yet read it back.
C16_Witness ==
  /\ pc = "reread"
  /\ rresp.handler = "read_itinerary"
  /\ rresp.args = <<new_id>>
  /\ rresp.resp.status_code = 200
  /\ Len(rresp.resp.body[1].days) = 2

C19_OrderIsRequestPosition ==
  created.status # 0 =>
    LET days == {d \in db.days : d.itinerary_id = created.id}
    IN  \A j \in 1..Len(created.days) : \A d \in days :
          d.day_number = created.days[j].day_number =>
            /\ \A i \in 1..Len(created.days[j].activity_ids) :
                 \E l \in db.day_activities :
                   l.day_id = d.id /\ l.ref = created.days[j].activity_ids[i] /\ l.order = i - 1
            /\ \A i \in 1..Len(created.days[j].transfer_ids) :
                 \E l \in db.day_transfers :
                   l.day_id = d.id /\ l.ref = created.days[j].transfer_ids[i] /\ l.order = i - 1
            /\ \A l1, l2 \in {l \in db.day_activities : l.day_id = d.id} :
                 l1.order = l2.order => l1 = l2
            /\ \A l1, l2 \in {l \in db.day_transfers : l.day_id = d.id} :
                 l1.order = l2.order => l1 = l2

\* C20: the session a request got is released after the request, whatever
\* the response: a creation request that has arrived, at any step and with
\* any response (201, 400 or 500), leads to the state where its session is
\* closed with nothing left in it, and a read request with its response
\* (200, 404, 422) leads to the state where its session is closed.
C20_SessionReleased ==
  /\ (pc # "idle") ~> (pc = "idle" /\ txn = EmptyStore /\ pending = NoPending)
  /\ (rresp # NoRead) ~> (rresp = NoRead)

\* C20 witness: the session of a creation request that answered 500 after
\* its commit is closed, and a detail read has answered 404.
C20_Witness ==
  /\ pc = "idle"
  /\ created.status = 500
  /\ rresp.resp.status_code = 404

\* C21 (as claimed): a creation request that references an activity or a
\* transfer which another process deletes after the existence check has
\* passed and before the commit, the store raising no other error, ends
\* with 400 ConstraintViolation and has committed no row.
C21_DeletedReferenceIsConstraintViolation ==
  (/\ pc = "done"
   /\ new_id # 0
   /\ fault = ""
   /\ \/ required_act_ids(req.days) \cap deleted.activities # {}
      \/ required_trans_ids(req.days) \cap deleted.transfers # {})
    => /\ response = HTTPException(400, ConstraintViolation, NoIds)
       /\ db = pre

\* C22: every itinerary committed by a creation request has is_recommended
\* false, and the recommended read of a duration from 2 to 8 returns, after
\* any creation requests, what it returns at start-up: the recommended
\* itineraries of the seed with that duration, with their days.
C22_CreationsNeverRecommended ==
  /\ \A it \in db.itineraries : ~it.is_recommended
  /\ (/\ rresp.handler = "get_recommended_itineraries_by_duration"
      /\ rresp.args[1] \in 2..8)
       => LET start == IF seeded THEN SeededStore ELSE EmptyStore
              rows  == ById({it \in start.itineraries : it.duration_nights = rresp.args[1]})
          IN  /\ rresp.resp.status_code = 200
              /\ rresp.resp.body = [i \in 1..Len(rows) |-> ItineraryDetail(start, rows[i], plan)]

\* C22 witness: the recommended read of duration 2 returns the one seed
\* itinerary of two nights from a store to which a creation request has
\* committed an itinerary of two nights.
C22_Witness ==
  /\ seeded
  /\ rresp.handler = "get_recommended_itineraries_by_duration"
  /\ rresp.args = <<2>>
  /\ Len(rresp.resp.body) = 1
  /\ \E it \in db.itineraries : it.duration_nights = 2

\* C23: a creation request with unique day numbers whose references all
\* exist and one of whose days lists an activity id, or a transfer id, more
\* than once, the store raising no other error, passes the existence check
\* and has its Itinerary row flushed, then ends with 400
\* ConstraintViolation, and no row of it is committed or left in its
\* session.
C23_RepeatedIdIsConstraintViolation ==
  (/\ pc = "done"
   /\ fault = ""
   /\ ~HasDuplicateDayNumbers(req.days)
   /\ MissingIds(Tables(pre), req.days) = NoIds
   /\ \E d \in 1..Len(req.days) :
        \/ Len(req.days[d].activity_ids) # Cardinality(Range(req.days[d].activity_ids))
        \/ Len(req.days[d].transfer_ids) # Cardinality(Range(req.days[d].transfer_ids)))
    => /\ queried
       /\ new_id # 0
       /\ response = HTTPException(400, ConstraintViolation, NoIds)
       /\ db = pre
       /\ txn = EmptyStore
       /\ pending = NoPending

\* C23 witness: a request whose day lists transfer 1 twice has ended with
\* 400 ConstraintViolation.
C23_Witness ==
  /\ pc = "done"
  /\ response = HTTPException(400, ConstraintViolation, NoIds)
  /\ Len(req.days) = 1
  /\ req.days[1].transfer_ids = <<1, 1>>
  /\ req.days[1].activity_ids = <<>>

====
